---- MODULE Spec2Model ----
(***************************************************************************)
(* Model of mcgtextension.py: the Markdown block processor that pipes a    *)
(* fenced `mcgtable` region to an external program and splices the parsed  *)
(* XML table into the document tree.                                       *)
(*                                                                         *)
(* Block texts are sequences of one-character strings, so that the two     *)
(* regular expressions are computed character by character.                *)
(***************************************************************************)
EXTENDS Integers, Sequences, FiniteSets, TLC

\* ------------------------------------------------------------------ bounds
MaxBlocks == 2      \* longest block list the host hands over
BufSize   == 4      \* characters the buffered writer holds before flushing
PipeCap   == 3      \* characters the child's input pipe holds
OutCap    == 1      \* chunks the child's output pipe holds

\* ------------------------------------------------------------- characters
\* the backtick character (a string literal cannot hold it)
BT == "BACKTICK"
SP == " "
NL == "\n"
TAB == "\t"
WS == {SP, NL, TAB}                       \* the characters \s matches here
Token == <<"m", "c", "g", "t", "a", "b", "l", "e">>

RECURSIVE Rep(_, _)
Rep(c, n) == IF n = 0 THEN <<>> ELSE <<c>> \o Rep(c, n - 1)

\* number of consecutive characters of class C in s starting at index from
RECURSIVE CountRun(_, _, _)
CountRun(s, from, C) ==
    IF from > Len(s) \/ from < 1 THEN 0
    ELSE IF s[from] \in C THEN 1 + CountRun(s, from + 1, C)
    ELSE 0

\* ---------------------------------------------------- RE_CODE_BLK_START
\* re.match(r'^ *`{3,}mcgtable *\n', s): index of the last matched
\* character, 0 when there is no match
MatchStart(s) ==
    LET a == CountRun(s, 1, {SP})
        b == CountRun(s, a + 1, {BT})
        t == a + b
        c == CountRun(s, t + Len(Token) + 1, {SP})
        e == t + Len(Token) + c + 1
    IN  IF /\ b >= 3
           /\ e <= Len(s)
           /\ SubSeq(s, t + 1, t + Len(Token)) = Token
           /\ s[e] = NL
        THEN e ELSE 0

\* re.sub(RE_CODE_BLK_START, '', s)
SubStart(s) ==
    IF MatchStart(s) = 0 THEN s ELSE SubSeq(s, MatchStart(s) + 1, Len(s))

\* ------------------------------------------------------ RE_CODE_BLK_END
\* r'\n *`{3,}\s*$' matches from position p when s[p] is a newline followed
\* by spaces, three or more backticks and only whitespace up to the end
EndMatchAt(s, p) ==
    /\ s[p] = NL
    /\ LET a == CountRun(s, p + 1, {SP})
           b == CountRun(s, p + 1 + a, {BT})
           w == CountRun(s, p + 1 + a + b, WS)
       IN  b >= 3 /\ p + a + b + w = Len(s)

\* re.search(RE_CODE_BLK_END, s): leftmost match position, 0 when none
SearchEnd(s) ==
    IF \E p \in 1..Len(s) : EndMatchAt(s, p)
    THEN CHOOSE p \in 1..Len(s) :
             EndMatchAt(s, p) /\ \A q \in 1..(p - 1) : ~EndMatchAt(s, q)
    ELSE 0

\* re.sub(RE_CODE_BLK_END, '', s)
SubEnd(s) ==
    IF SearchEnd(s) = 0 THEN s ELSE SubSeq(s, 1, SearchEnd(s) - 1)

\* MCellGridTableBlockProcessor.test: truthiness of the match object
test(parent_, block) == MatchStart(block) # 0

\* ------------------------------------------------------------ block texts
Fence == Rep(BT, 3)
OpenLine == Fence \o Token \o <<NL>>
TOpen     == OpenLine \o <<"a">>                 \* opening fence, no closing
TBoth     == OpenLine \o <<"a", NL>> \o Fence    \* both fences in one block
TFenceEnd == OpenLine \o Fence                   \* closing line right after
XPlain    == <<"b">>
XClose    == <<"b", NL>> \o Fence                \* block ending the region
BlockTexts == {TOpen, TBoth, TFenceEnd, XPlain, XClose}

RECURSIVE SeqsUpTo(_, _)
SeqsUpTo(S, n) ==
    IF n = 0 THEN {<<>>}
    ELSE LET shorter == SeqsUpTo(S, n - 1)
         IN  shorter \cup {Append(q, x) : q \in shorter, x \in S}

BlockLists == SeqsUpTo(BlockTexts, MaxBlocks) \ {<<>>}

\* ---------------------------------------------- the child's XML documents
\* a document is its root's children (sections), their children (rows) and
\* the rows' children (cells); chunks lists the texts handed to parseChunk
\* with the cell as destination
Cell(tag, text) == [tag |-> tag, text |-> text, chunks |-> <<>>]
Row(tag, cells) == [tag |-> tag, cells |-> cells]
Section(tag, rows) == [tag |-> tag, rows |-> rows]
NoneText == "None"                       \* Element.text of a cell without text

DocA == [id |-> "A", sections |-> <<
            Section("thead", <<Row("tr", <<Cell("th", "a"), Cell("td", "b")>>)>>),
            Section("tbody", <<Row("tr", <<Cell("td", "1"), Cell("th", NoneText)>>)>>) >>]
DocB == [id |-> "B", sections |-> <<
            Section("tfoot", <<Row("tr", <<Cell("td", "f"), Cell("th", "g")>>)>>),
            Section("colgroup", <<Row("tr", <<Cell("td", "z")>>)>>),
            Section("tbody", <<Row("div", <<Cell("td", "y")>>),
                               Row("tr", <<Cell("span", "q")>>)>>) >>]
NoDoc == [id |-> "none", sections |-> <<>>]
Docs == {DocA, DocB}

\* what the child is going to print: a document in len chunks, text that is
\* not XML, or nothing
Plans == {[kind |-> "xml", doc |-> d, len |-> 2] : d \in Docs}
         \cup {[kind |-> "bad", doc |-> NoDoc, len |-> 1],
               [kind |-> "none", doc |-> NoDoc, len |-> 0]}
NoPlan == [kind |-> "none", doc |-> NoDoc, len |-> 0]

\* one e.findall(sec/tr/ctag) loop: take the text, clear it, parseChunk
CellPass(doc, sec, ctag) ==
    [doc EXCEPT !.sections =
        [si \in DOMAIN doc.sections |->
            LET s == doc.sections[si] IN
            IF s.tag # sec THEN s
            ELSE [s EXCEPT !.rows =
                [ri \in DOMAIN s.rows |->
                    LET r == s.rows[ri] IN
                    IF r.tag # "tr" THEN r
                    ELSE [r EXCEPT !.cells =
                        [ci \in DOMAIN r.cells |->
                            LET c == r.cells[ci] IN
                            IF c.tag # ctag THEN c
                            ELSE [c EXCEPT !.text = "",
                                           !.chunks = Append(@, c.text)]]]]]]]

\* mutant: the tfoot/tr/td loop is missing
ProcessCellsNoFootTd(doc) ==
    CellPass(CellPass(CellPass(CellPass(CellPass(doc,
        "thead", "th"), "thead", "td"), "tbody", "th"), "tbody", "td"),
        "tfoot", "th")

\* the six loops of run, in source order
ProcessCells(doc) ==
    CellPass(CellPass(CellPass(CellPass(CellPass(CellPass(doc,
        "thead", "th"), "thead", "td"), "tbody", "th"), "tbody", "td"),
        "tfoot", "th"), "tfoot", "td")

OtherElem == [id |-> "other", sections |-> <<>>]   \* node of another handler

\* ------------------------------------------------------------------ state
VARIABLES
    blocks,          \* the host's block list
    parent,          \* children of the insertion point
    pc,              \* position of the calling task
    tres,            \* truth value of the last test call
    ret,             \* how the last run ended: "True", "False", "raised"
    exc,             \* the error that left run
    original_block,  \* run's local
    block_num,       \* run's loop index (1-based)
    i,               \* index of the write loop (1-based)
    wphase,          \* next write call: the block text or the separator
    pending,         \* characters in the writer's buffer
    stdin_closed,    \* proc.stdin has been closed
    result,          \* the queue
    cstate,          \* child process: "none", "running", "exited"
    cstdout,         \* the child holds its standard output open
    cplan,           \* what the child prints
    cemit,           \* chunks printed so far
    cread,           \* the child has read from its standard input
    cwriting,        \* the child is inside a write to its standard output
    inpipe,          \* characters in the child's input pipe
    outpipe,         \* chunks in the child's output pipe
    tstate,          \* reader thread: "none", "running", "finished"
    tread,           \* chunks the reader has read
    pre_blocks,      \* block list at the call of run
    pre_parent,      \* children of the insertion point at the call of run
    launched,        \* children launched by this run
    unreaped,        \* children launched and never waited for
    written,         \* characters written to the current child's input
    e_doc,           \* the document taken from the queue
    swallowed,       \* a close error was swallowed in this run
    close_err,       \* outcome of the last proc.stdin.close()
    nput,            \* result.put calls of the current child's reader
    nget             \* result.get calls made for the current child

hostVars   == <<blocks, parent, tres>>
callVars   == <<pc, ret, exc, original_block, block_num>>
writeVars  == <<i, wphase, pending, stdin_closed, written>>
childVars  == <<cstate, cstdout, cplan, cemit, cread, cwriting, inpipe,
               outpipe>>
readVars   == <<tstate, tread, result>>
ghostVars  == <<pre_blocks, pre_parent, launched, unreaped, e_doc, swallowed,
               close_err, nput, nget>>
vars == <<hostVars, callVars, writeVars, childVars, readVars, ghostVars>>

Rest ==
    /\ parent = <<>> /\ pc = "host" /\ tres = FALSE
    /\ ret = "none" /\ exc = "none"
    /\ original_block = <<>> /\ block_num = 0
    /\ i = 0 /\ wphase = "text" /\ pending = 0 /\ stdin_closed = FALSE
    /\ result = <<>>
    /\ cstate = "none" /\ cstdout = FALSE /\ cplan = NoPlan /\ cemit = 0
    /\ cread = FALSE /\ cwriting = FALSE
    /\ inpipe = 0 /\ outpipe = 0
    /\ tstate = "none" /\ tread = 0
    /\ pre_blocks = <<>> /\ pre_parent = <<>>
    /\ launched = 0 /\ unreaped = 0 /\ written = <<>>
    /\ e_doc = NoDoc /\ swallowed = FALSE /\ close_err = "none"
    /\ nput = 0 /\ nget = 0

Init == blocks \in BlockLists /\ Rest

\* ------------------------------------------------------------- the host
\* mutant: test strips the opening marker from the block it is shown
HostTestStrips ==
    /\ pc = "host" /\ blocks # <<>>
    /\ tres' = test(parent, blocks[1])
    /\ blocks' = [blocks EXCEPT ![1] = SubStart(@)]
    /\ pc' = "tested"
    /\ UNCHANGED <<parent, ret, exc, original_block, block_num,
                   writeVars, childVars, readVars, ghostVars>>

\* the host offers the first unconsumed block to test
HostTest ==
    /\ pc = "host" /\ blocks # <<>>
    /\ tres' = test(parent, blocks[1])
    /\ pc' = "tested"
    /\ UNCHANGED <<blocks, parent, ret, exc, original_block, block_num,
                   writeVars, childVars, readVars, ghostVars>>

\* test called a second time on the block it has just been shown
TestAgain ==
    /\ pc = "tested" /\ blocks # <<>>
    /\ tres' = test(parent, blocks[1])
    /\ pc' = "retested"
    /\ UNCHANGED <<blocks, parent, ret, exc, original_block, block_num,
                   writeVars, childVars, readVars, ghostVars>>

\* a block this processor does not take is consumed by another handler
OtherHandler ==
    /\ blocks' = Tail(blocks)
    /\ parent' = Append(parent, OtherElem)
    /\ pc' = "host"
    /\ UNCHANGED <<tres, ret, exc, original_block, block_num,
                   writeVars, childVars, readVars, ghostVars>>

HostSkip == pc = "tested" /\ ~tres /\ OtherHandler

HostAfterFalse == pc = "returned" /\ ret = "False" /\ OtherHandler

HostAfterTrue ==
    /\ pc = "returned" /\ ret = "True"
    /\ pc' = "host"
    /\ UNCHANGED <<hostVars, ret, exc, original_block, block_num,
                   writeVars, childVars, readVars, ghostVars>>

\* ------------------------------------------------------------------- run
\* lines 31-35: new queue, save block 0, strip the opening marker
RunEnter ==
    /\ pc = "tested" /\ tres
    /\ result' = <<>>
    /\ original_block' = blocks[1]
    /\ blocks' = [blocks EXCEPT ![1] = SubStart(@)]
    /\ block_num' = 1
    /\ pc' = "scan"
    /\ ret' = "none" /\ exc' = "none"
    /\ pre_blocks' = blocks /\ pre_parent' = parent
    /\ launched' = 0 /\ e_doc' = NoDoc /\ swallowed' = FALSE
    /\ close_err' = "none"
    /\ UNCHANGED <<parent, tres, writeVars, childVars, tstate, tread, unreaped,
                   nput, nget>>

\* the for loop of line 38 resumed at index from: the next block in which
\* re.search finds the closing marker, 0 when the loop runs out
NextClose(bs, from) ==
    IF \E j \in from..Len(bs) : SearchEnd(bs[j]) # 0
    THEN CHOOSE j \in from..Len(bs) :
            SearchEnd(bs[j]) # 0 /\ \A h \in from..(j - 1) : SearchEnd(bs[h]) = 0
    ELSE 0

\* mutant: the first block is left without its opening marker
RestoreForgotten(bs, orig) == bs

\* lines 118-120
Restore(bs, orig) == [bs EXCEPT ![1] = orig]

\* the loop finds no (further) closing marker: restore block 0, return False
RunFail ==
    /\ pc = "scan"
    /\ NextClose(blocks, block_num) = 0
    /\ blocks' = Restore(blocks, original_block)
    /\ ret' = "False"
    /\ pc' = "returned"
    /\ UNCHANGED <<parent, tres, exc, original_block, block_num,
                   writeVars, childVars, readVars, ghostVars>>

\* lines 42-55 when Popen cannot start the program: FileNotFoundError
\* leaves run
LaunchRaise ==
    /\ pc = "scan"
    /\ NextClose(blocks, block_num) # 0
    /\ LET k == NextClose(blocks, block_num) IN
        /\ blocks' = [blocks EXCEPT ![k] = SubEnd(@)]
        /\ block_num' = k
    /\ ret' = "raised" /\ exc' = "FileNotFoundError"
    /\ pc' = "returned"
    /\ UNCHANGED <<parent, tres, original_block,
                   writeVars, childVars, readVars, ghostVars>>

\* lines 42-60: strip the closing marker, start the child, start the reader
Launch ==
    /\ pc = "scan"
    /\ NextClose(blocks, block_num) # 0
    /\ LET k == NextClose(blocks, block_num) IN
        /\ blocks' = [blocks EXCEPT ![k] = SubEnd(@)]
        /\ block_num' = k
    /\ cstate' = "running" /\ cstdout' = TRUE
    /\ cplan' \in Plans
    /\ cemit' = 0 /\ cread' = FALSE /\ cwriting' = FALSE
    /\ inpipe' = 0 /\ outpipe' = 0
    /\ tstate' = "running" /\ tread' = 0
    /\ i' = 1 /\ wphase' = "text" /\ pending' = 0
    /\ stdin_closed' = FALSE /\ written' = <<>>
    /\ launched' = launched + 1 /\ unreaped' = unreaped + 1
    /\ nput' = 0 /\ nget' = 0
    /\ pc' = "write"
    /\ UNCHANGED <<parent, tres, ret, exc, original_block, result,
                   pre_blocks, pre_parent, e_doc, swallowed, close_err>>

Min(a, b) == IF a < b THEN a ELSE b

\* mutant: the stream is not closed before the wait for the reader
AfterWritesSkipsClose(idx) == IF idx > block_num THEN "join" ELSE "write"

\* position after the write loop's current call
AfterWrites(idx) == IF idx > block_num THEN "close" ELSE "write"

\* lines 61-63: one proc.stdin.write call; the buffered writer flushes to
\* the pipe once it holds more than BufSize characters
Write ==
    /\ pc = "write"
    /\ LET x == IF wphase = "text" THEN blocks[i] ELSE <<NL, NL>>
           ni == IF wphase = "text" THEN i ELSE i + 1
       IN  /\ written' = written \o x
           /\ pending' = pending + Len(x)
           /\ i' = ni
           /\ wphase' = IF wphase = "text" THEN "sep" ELSE "text"
           /\ pc' = IF pending + Len(x) > BufSize THEN "flush"
                    ELSE AfterWrites(ni)
    /\ UNCHANGED <<hostVars, ret, exc, original_block, block_num,
                   stdin_closed, childVars, readVars, ghostVars>>

\* the buffer moves into the pipe as far as the pipe has room
MoveToPipe ==
    /\ cstate = "running" /\ pending > 0 /\ inpipe < PipeCap
    /\ LET amt == Min(pending, PipeCap - inpipe) IN
        /\ inpipe' = inpipe + amt
        /\ pending' = pending - amt

\* a flush inside write blocks until the buffer is in the pipe
Flush ==
    /\ pc = "flush"
    /\ MoveToPipe
    /\ pc' = IF pending' = 0 THEN AfterWrites(i) ELSE "flush"
    /\ UNCHANGED <<hostVars, ret, exc, original_block, block_num,
                   i, wphase, stdin_closed, written,
                   cstate, cstdout, cplan, cemit, cread, cwriting, outpipe,
                   readVars, ghostVars>>

\* the child has closed its read end: write raises BrokenPipeError, which
\* nothing in run catches (the try of line 67 covers only close)
WriteBrokenPipe ==
    /\ pc = "flush"
    /\ cstate = "exited"
    /\ ret' = "raised" /\ exc' = "BrokenPipeError"
    /\ pc' = "returned"
    /\ UNCHANGED <<hostVars, original_block, block_num,
                   writeVars, childVars, readVars, ghostVars>>

\* lines 67-75: the errors close can fail with, and which of them the
\* except clauses let pass
CloseErrors == {"EPIPE", "EINVAL", "EIO"}
Swallows(err) == err = "EPIPE" \/ err = "EINVAL"

\* close first flushes what the buffer still holds
CloseFlush ==
    /\ pc = "close"
    /\ MoveToPipe
    /\ UNCHANGED <<hostVars, callVars, i, wphase, stdin_closed, written,
                   cstate, cstdout, cplan, cemit, cread, cwriting, outpipe,
                   readVars, ghostVars>>

CloseOk ==
    /\ pc = "close" /\ pending = 0
    /\ stdin_closed' = TRUE
    /\ close_err' = "ok"
    /\ pc' = "join"
    /\ UNCHANGED <<hostVars, ret, exc, original_block, block_num,
                   i, wphase, pending, written, childVars, readVars,
                   pre_blocks, pre_parent, launched, unreaped, e_doc,
                   swallowed, nput, nget>>

\* close fails: a broken pipe when buffered data meets a closed read end,
\* any other errno whenever the system reports it
CloseFail ==
    /\ pc = "close"
    /\ \E err \in CloseErrors :
        /\ err = "EPIPE" => (pending > 0 /\ cstate = "exited")
        /\ close_err' = err
        /\ IF Swallows(err)
           THEN /\ swallowed' = TRUE
                /\ pc' = "join"
                /\ UNCHANGED <<ret, exc>>
           ELSE /\ ret' = "raised" /\ exc' = "OSError"
                /\ pc' = "returned"
                /\ UNCHANGED swallowed
    /\ stdin_closed' = TRUE
    /\ UNCHANGED <<hostVars, original_block, block_num,
                   i, wphase, pending, written, childVars, readVars,
                   pre_blocks, pre_parent, launched, unreaped, e_doc,
                   nput, nget>>

\* lines 76-77 with an empty queue: the for loop goes on to the next block
JoinEmpty ==
    /\ pc = "join" /\ tstate = "finished"
    /\ result = <<>>
    /\ block_num' = block_num + 1
    /\ pc' = "scan"
    /\ UNCHANGED <<hostVars, ret, exc, original_block,
                   writeVars, childVars, readVars, ghostVars>>

\* mutant: the block holding the closing marker is left in the list
PopConsumedExclusive(bs, k) == SubSeq(bs, k, Len(bs))

\* lines 113-115
PopConsumed(bs, k) == SubSeq(bs, k + 1, Len(bs))

\* mutant: the root is appended twice
AppendRootTwice(par, root) == Append(Append(par, root), root)

\* line 107: parent.append(e.getroot())
AppendRoot(par, root) == Append(par, root)

\* lines 76-116: take the document, reparse the cells, append the root,
\* remove the consumed blocks, return True
JoinSuccess ==
    /\ pc = "join" /\ tstate = "finished"
    /\ result # <<>>
    /\ e_doc' = Head(result)
    /\ result' = Tail(result)
    /\ parent' = AppendRoot(parent, ProcessCells(Head(result)))
    /\ blocks' = PopConsumed(blocks, block_num)
    /\ nget' = nget + 1
    /\ ret' = "True"
    /\ pc' = "returned"
    /\ UNCHANGED <<tres, exc, original_block, block_num,
                   writeVars, childVars, tstate, tread,
                   pre_blocks, pre_parent, launched, unreaped, swallowed,
                   close_err, nput>>

\* ------------------------------------------------------------- the child
\* the child is one sequential program: while it is blocked in a write to
\* a full output pipe it neither reads nor closes anything
ChildRead ==
    /\ cstate = "running" /\ ~cwriting /\ inpipe > 0
    /\ inpipe' = 0
    /\ cread' = TRUE
    /\ UNCHANGED <<hostVars, callVars, writeVars,
                   cstate, cstdout, cplan, cemit, cwriting, outpipe,
                   readVars, ghostVars>>

\* the child enters a write of its next chunk
ChildBeginEmit ==
    /\ cstate = "running" /\ cstdout /\ ~cwriting
    /\ cemit < cplan.len
    /\ cwriting' = TRUE
    /\ UNCHANGED <<hostVars, callVars, writeVars,
                   cstate, cstdout, cplan, cemit, cread, inpipe, outpipe,
                   readVars, ghostVars>>

\* the write completes once the output pipe has room
ChildEmit ==
    /\ cstate = "running" /\ cwriting
    /\ outpipe < OutCap
    /\ cemit' = cemit + 1
    /\ outpipe' = outpipe + 1
    /\ cwriting' = FALSE
    /\ UNCHANGED <<hostVars, callVars, writeVars,
                   cstate, cstdout, cplan, cread, inpipe, readVars, ghostVars>>

\* the child closes its standard output and keeps running
ChildCloseOut ==
    /\ cstate = "running" /\ cstdout /\ ~cwriting
    /\ cstdout' = FALSE
    /\ UNCHANGED <<hostVars, callVars, writeVars,
                   cstate, cplan, cemit, cread, cwriting, inpipe, outpipe,
                   readVars, ghostVars>>

\* the child exits or crashes, at any point
ChildExit ==
    /\ cstate = "running"
    /\ cstate' = "exited"
    /\ cstdout' = FALSE
    /\ cwriting' = FALSE
    /\ inpipe' = 0
    /\ UNCHANGED <<hostVars, callVars, writeVars,
                   cplan, cemit, cread, outpipe, readVars, ghostVars>>

\* the child exits of its own accord, which it cannot do inside a write
ChildFinish == ~cwriting /\ ChildExit

\* ------------------------------------------- mcgt_xml_parse_task (thread)
\* etree.parse yields a document only for complete XML output
Parses(plan, n) == plan.kind = "xml" /\ n = plan.len

\* mutant: the reader takes nothing until the caller waits for it, as when
\* the output is read only after the writes
ReaderReadAfterWrites ==
    /\ pc = "join"
    /\ tstate = "running" /\ outpipe > 0
    /\ tread' = tread + outpipe
    /\ outpipe' = 0
    /\ UNCHANGED <<hostVars, callVars, writeVars,
                   cstate, cstdout, cplan, cemit, cread, cwriting, inpipe,
                   tstate, result, ghostVars>>

ReaderRead ==
    /\ tstate = "running" /\ outpipe > 0
    /\ tread' = tread + outpipe
    /\ outpipe' = 0
    /\ UNCHANGED <<hostVars, callVars, writeVars,
                   cstate, cstdout, cplan, cemit, cread, cwriting, inpipe,
                   tstate, result, ghostVars>>

\* end of stream: result.put(etree.parse(src)), or ParseError ends the
\* thread before put
ReaderEOF ==
    /\ tstate = "running" /\ outpipe = 0 /\ ~cstdout
    /\ result' = IF Parses(cplan, tread) THEN Append(result, cplan.doc)
                 ELSE result
    /\ nput' = IF Parses(cplan, tread) THEN nput + 1 ELSE nput
    /\ tstate' = "finished"
    /\ UNCHANGED <<hostVars, callVars, writeVars, childVars, tread,
                   pre_blocks, pre_parent, launched, unreaped, e_doc,
                   swallowed, close_err, nget>>

Next ==
    \/ HostTest \/ HostSkip \/ HostAfterFalse \/ HostAfterTrue
    \/ RunEnter \/ RunFail \/ LaunchRaise \/ Launch
    \/ Write \/ Flush \/ WriteBrokenPipe
    \/ CloseFlush \/ CloseOk \/ CloseFail
    \/ JoinEmpty \/ JoinSuccess
    \/ ChildRead \/ ChildBeginEmit \/ ChildEmit \/ ChildCloseOut \/ ChildExit
    \/ ReaderRead \/ ReaderEOF

Spec == Init /\ [][Next]_vars

\* scheduling: the calling task, the reader thread and the child are three
\* sequential processes, each of which runs whenever it is not blocked; the
\* child keeps reading its input, completes a write once the pipe has room
\* and finally exits.  No fairness is put on failures the environment may
\* or may not produce (Popen failing, close failing with EINVAL or EIO, a
\* crash of the child).
CallerStep ==
    \/ RunFail \/ Launch
    \/ Write \/ Flush \/ WriteBrokenPipe
    \/ CloseFlush \/ CloseOk \/ (CloseFail /\ close_err' = "EPIPE")
    \/ JoinEmpty \/ JoinSuccess

ReaderStep == ReaderRead \/ ReaderEOF

ChildStep == ChildRead \/ ChildEmit \/ ChildFinish

Fairness == WF_vars(CallerStep) /\ WF_vars(ReaderStep) /\ WF_vars(ChildStep)

\* block lists for the runs under fairness: a list no handler takes, a
\* region that is never closed, regions of one and of two blocks, and
\* regions followed by a later closing marker
LiveLists ==
    { <<XPlain>>, <<TOpen>>, <<TBoth>>, <<TFenceEnd>>,
      <<TOpen, XClose>>, <<TOpen, XPlain>>, <<TBoth, XClose>>,
      <<TBoth, TBoth>>, <<TBoth, XPlain>> }

InitLive == blocks \in LiveLists /\ Rest

SpecLive == InitLive /\ [][Next]_vars /\ Fairness

TypeOK ==
    /\ pc \in {"host", "tested", "retested", "scan", "write", "flush", "close", "join",
               "returned"}
    /\ ret \in {"none", "True", "False", "raised"}
    /\ Len(blocks) <= MaxBlocks

\* --------------------------------------------- test on its own (SpecTest)
Prefixes == {<<>>, <<SP>>, <<SP, SP>>, <<"x">>, <<TAB>>, <<NL>>}
BtCounts == {2, 3, 4}
Tokens == {Token, SubSeq(Token, 1, Len(Token) - 1), <<"M">> \o Tail(Token)}
Trailings == {<<>>, <<SP>>, <<NL>>, <<SP, NL>>, <<NL, "a">>, <<"x", NL>>,
              <<TAB, NL>>, <<SP, SP, NL, NL>>, <<SP, "x", NL>>}
TestTexts == {p \o Rep(BT, n) \o t \o r :
                 p \in Prefixes, n \in BtCounts, t \in Tokens, r \in Trailings}

InitTest == blocks \in {<<t>> : t \in TestTexts} /\ Rest
NextTest == HostTest \/ TestAgain
SpecTest == InitTest /\ [][NextTest]_vars

\* ----------------------------------------------------------------- claims
InRun == pc \in {"scan", "write", "flush", "close", "join"}
Returned == pc = "returned"

\* the block list as the loop of line 38 first sees it
Stripped(bs) == [bs EXCEPT ![1] = SubStart(@)]

\* index of the first block holding the closing marker, 0 when none does
FirstClose(bs) == NextClose(Stripped(bs), 1)

\* C1: when, after the opening marker is stripped from block 0, no block
\* holds the closing marker, run launches no child and returns False with
\* the block list equal, block by block, to the list it was called with.
C1_NoClosingFenceFails ==
    ((InRun \/ Returned) /\ FirstClose(pre_blocks) = 0) =>
        /\ launched = 0
        /\ Returned => (ret = "False" /\ blocks = pre_blocks)

C1_Witness ==
    /\ Returned /\ ret = "False"
    /\ Len(pre_blocks) = 2 /\ FirstClose(pre_blocks) = 0
    /\ blocks[1] # Stripped(pre_blocks)[1]

\* C2: when a closing marker was found but no child yielded a document,
\* run returns False with every block, block k included, as before the call.
C2_FailureLeavesAllBlocks ==
    (Returned /\ launched >= 1 /\ ret = "False") => blocks = pre_blocks

\* C3: when the program cannot be started, or exits without output, run
\* returns False rather than raising, and block 0 is its original text.
C3_UnavailableReturnsFailure ==
    (Returned /\ (exc = "FileNotFoundError"
                  \/ (launched = 1 /\ close_err \in {"ok", "EPIPE"}
                      /\ cstate = "exited" /\ cemit = 0)))
        => (ret = "False" /\ blocks[1] = pre_blocks[1])

\* C4: on success the blocks removed are exactly 0..k, k the first block
\* holding the closing marker, and the list is the blocks after k, unchanged.
C4_SuccessRemovesUpToFirstClose ==
    (Returned /\ ret = "True") =>
        /\ FirstClose(pre_blocks) # 0
        /\ blocks = SubSeq(pre_blocks, FirstClose(pre_blocks) + 1,
                           Len(pre_blocks))

\* C5: the children of the insertion point change only on success: during
\* run and after a False return they are as at the call, after a True
\* return they are the list at the call plus one element at the end, the
\* root of the document the child printed.
C5_ParentChangesOnlyOnSuccess ==
    /\ InRun => parent = pre_parent
    /\ (Returned /\ ret = "False") => parent = pre_parent
    /\ (Returned /\ ret = "True") =>
        /\ Len(parent) = Len(pre_parent) + 1
        /\ SubSeq(parent, 1, Len(pre_parent)) = pre_parent
        /\ cplan.kind = "xml"
        /\ parent[Len(parent)].id = cplan.doc.id

C5_Witness ==
    /\ Returned /\ ret = "True"
    /\ Len(pre_parent) >= 1
    /\ parent[Len(parent)].id = "B"

\* C6: when the child exits at once, having read no input and written no
\* output, run raises nothing whatever the size of the texts, waits for the
\* reader and returns False.
C6_IdleChildReturnsFailure ==
    (Returned /\ launched = 1 /\ exc # "FileNotFoundError"
              /\ close_err \in {"none", "ok", "EPIPE"}
              /\ cstate = "exited" /\ ~cread /\ cemit = 0)
        => (ret = "False" /\ tstate = "finished")

\* C7: a close that fails with a broken pipe or EINVAL is swallowed and run
\* ends with True or False; a close that fails with any other error leaves
\* run as that error.
C7_CloseErrorsClassified ==
    /\ close_err \in {"EPIPE", "EINVAL"} => (swallowed /\ pc # "close")
    /\ (Returned /\ swallowed) => ret \in {"True", "False"}
    /\ close_err = "EIO" => (Returned /\ ret = "raised" /\ exc = "OSError")

\* the first line of a block, without its newline
FirstLine(b) ==
    LET n == CountRun(b, 1, {c \in {b[j] : j \in DOMAIN b} : c # NL})
    IN  SubSeq(b, 1, n)

\* spaces, three or more backticks, the token, spaces
IsOpeningFenceLine(line) ==
    \E a \in 0..Len(line), n \in 3..Len(line), c \in 0..Len(line) :
        line = Rep(SP, a) \o Rep(BT, n) \o Token \o Rep(SP, c)

\* C8: test is true exactly for the blocks whose first line is an opening
\* fence line, with or without text after that line.
C8_TestIffOpeningFenceLine ==
    pc = "tested" => (tres <=> IsOpeningFenceLine(FirstLine(blocks[1])))

\* C9: after run returns, every child it launched has been reaped, none is
\* still running, the queue is empty, and a document taken from the queue is
\* the one the invocation's own child printed.
C9_NothingLeftAfterReturn ==
    /\ (Returned /\ ret \in {"True", "False"}) =>
            (unreaped = 0 /\ cstate # "running" /\ result = <<>>)
    /\ (Returned /\ ret = "True") => e_doc = cplan.doc

\* the cells the six paths of run select
Selected(doc, si, ri, ci) ==
    /\ doc.sections[si].tag \in {"thead", "tbody", "tfoot"}
    /\ doc.sections[si].rows[ri].tag = "tr"
    /\ doc.sections[si].rows[ri].cells[ci].tag \in {"th", "td"}

\* C10: on success every th and td under a tr under thead, tbody or tfoot
\* of the appended table has been handed to the chunk parser exactly once,
\* with the text the child printed for it, and its own text is empty.
C10_CellsReparsedOnce ==
    (Returned /\ ret = "True") =>
        LET t == parent[Len(parent)]
            d == cplan.doc
        IN  \A si \in DOMAIN d.sections :
              \A ri \in DOMAIN d.sections[si].rows :
                \A ci \in DOMAIN d.sections[si].rows[ri].cells :
                  Selected(d, si, ri, ci) =>
                    LET c == t.sections[si].rows[ri].cells[ci] IN
                    /\ c.chunks = <<d.sections[si].rows[ri].cells[ci].text>>
                    /\ c.text = ""

C10_Witness ==
    /\ Returned /\ ret = "True"
    /\ cplan.doc = DocB
    /\ parent[Len(parent)].sections[1].rows[1].cells[1].chunks = <<"f">>
    /\ parent[Len(parent)].sections[2].rows[1].cells[1].chunks = <<>>

C12_OneChildPerRun ==
    (InRun \/ Returned) =>
        /\ launched <= 1
        /\ (Returned /\ ret \in {"True", "False"} /\ FirstClose(pre_blocks) # 0)
              => launched = 1

\* blocks 0..k as the claim describes them: the opening marker taken from
\* block 0, the closing marker from block k, the others as they were
Region(bs, k) ==
    [j \in 1..k |-> IF j = k THEN SubEnd(Stripped(bs)[j]) ELSE Stripped(bs)[j]]

\* the first n texts, each followed by two newlines
RECURSIVE Joined(_, _)
Joined(texts, n) ==
    IF n = 0 THEN <<>> ELSE Joined(texts, n - 1) \o texts[n] \o <<NL, NL>>

\* C13: what has been written to the child once the write loop is over is
\* the texts of blocks 0..k in order, opening marker removed from block 0
\* and closing marker from block k, each followed by two newlines, and no
\* write follows the close.
C13_WrittenIsRegion ==
    /\ pc \in {"close", "join"} =>
          written = Joined(Region(pre_blocks, block_num), block_num)
    /\ stdin_closed => pc \notin {"write", "flush"}

\* C14: the calling task waits for the reader only when every write of
\* blocks 0..k has been issued and the input stream has been closed, or the
\* close attempted; the reader is started before the first write.
C14_JoinAfterWritesAndClose ==
    /\ pc = "join" =>
          /\ stdin_closed /\ close_err # "none"
          /\ i = block_num + 1 /\ wphase = "text"
          /\ written = Joined(blocks, block_num)
    /\ pc \in {"write", "flush", "close", "join"} =>
          (launched >= 1 /\ tstate # "none")

\* the reader has taken output of the child while the caller still writes
C14_Witness ==
    /\ pc = "write" /\ written # <<>> /\ ~stdin_closed
    /\ tstate = "running" /\ tread > 0

\* C15: for each child the queue is written exactly once by the reader and
\* read exactly once by the caller, also when the child's output is empty
\* or is not XML.
C15_HandoffOncePerChild ==
    /\ (launched >= 1 /\ tstate = "finished") => nput = 1
    /\ (launched >= 1 /\ (pc = "scan" \/ (Returned /\ ret \in {"True", "False"})))
          => nget = 1

C17_ReaderDoneWhenRunLeaves ==
    Returned => tstate \in {"none", "finished"}

\* C18: the return value and the length of the block list agree: after a
\* return of True the list is strictly shorter than when run was entered,
\* after a return of False it has the length it had.
C18_ReturnAgreesWithLength ==
    /\ (Returned /\ ret = "True") => Len(blocks) < Len(pre_blocks)
    /\ (Returned /\ ret = "False") => Len(blocks) = Len(pre_blocks)

\* a success whose region ends in the first of two blocks and leaves the
\* second for the host
C18_Witness ==
    /\ Returned /\ ret = "True"
    /\ Len(pre_blocks) = 2 /\ Len(blocks) = 1 /\ block_num = 1

====
